---- MODULE Spec2Model ----
(***************************************************************************)
(* Model of the RAG caching engine of the OpenBee backend:                 *)
(*   rag-service.js  (processDocumentWithRAG, generateEmbedding),          *)
(*   database.js     (getDocumentByHash, insertDocument,                   *)
(*                    findSimilarDocuments, calculateCosineSimilarity),    *)
(*   server.js       (POST /analyze, generateText),                        *)
(*   init.sql        (documents table, UNIQUE file_hash, rag_settings).    *)
(* Every await of the JavaScript code is an interleaving point: one action *)
(* of the model is the code that runs between two awaits, together with    *)
(* the answer of the external call that was awaited.                       *)
(***************************************************************************)
EXTENDS Integers, Sequences, FiniteSets, TLC

VARIABLES docs, req, ragEnabled, call

vars == <<docs, req, ragEnabled, call>>

(***************************************************************************)
(* Bounds of the model.                                                    *)
(***************************************************************************)
\* number of requests (POST /analyze or direct calls of
\* processDocumentWithRAG) issued in one behaviour
MaxRequests == 2
\* number of requests that may be in flight at the same time
MaxInFlight == 2

Reqs == 1..MaxRequests

(***************************************************************************)
(* Uploaded files.  A file is its bytes (buffer), the name it was uploaded *)
(* under, and what the external collaborators return for it: pdf-parse     *)
(* gives the text, the embedding model gives the vector of that text.      *)
(***************************************************************************)
Files ==
  { [buffer |-> <<1>>, originalname |-> "a.pdf", text |-> "t1", vec |-> <<1, 0>>],
    [buffer |-> <<2>>, originalname |-> "b.pdf", text |-> "t2", vec |-> <<2, 1>>],
    [buffer |-> <<1, 2>>, originalname |-> "c.pdf", text |-> "t3", vec |-> <<4, 3>>],
    \* a PDF without any text: pdf-parse gives '', the embedding model []
    [buffer |-> <<3>>, originalname |-> "d.pdf", text |-> "", vec |-> <<>>] }

NoFile == [buffer |-> <<>>, originalname |-> "", text |-> "", vec |-> <<>>]

\* crypto.createHash('sha256').update(buffer).digest('hex'): a digest of the
\* bytes, collision free on the modelled buffers (base-257 positional code)
RECURSIVE generateFileHash(_)
generateFileHash(buffer) ==
  IF buffer = <<>> THEN 0
  ELSE (Head(buffer) + 1) + 257 * generateFileHash(Tail(buffer))

(***************************************************************************)
(* Text results.  A result string is the sequence of its pieces, so that   *)
(* concatenation is \o and two results are equal exactly when the strings  *)
(* are.                                                                    *)
(***************************************************************************)
\* the JavaScript value null (aiSummary = null)
Null == <<"null">>

\* texts the generation model may answer with (temperature 0.2: the same
\* prompt may be answered differently by two calls)
Summaries == { <<"s1">>, <<"s2">> }

\* what the POST to /api/generate may do
OllamaAnswers ==
  { [kind |-> "ok", response |-> s] : s \in Summaries }
    \cup { [kind |-> "error", response |-> <<>>] }

ErrorText == <<"Erreur lors de l'appel a Ollama.">>
NoResponseText == <<"Pas de reponse d'Ollama.">>

\* generateText: never throws; a failed call is turned into a text
generateText(answer) ==
  IF answer.kind = "error" THEN ErrorText
  ELSE IF answer.response = <<>> THEN NoResponseText
  ELSE answer.response

\* an element of a JSON array that is no number (a string, an object)
NotANumber == 1000

IsNumeric(vec) == \A i \in 1..Len(vec) : vec[i] # NotANumber

\* what the POST to /api/embeddings may do for a file: answer with the
\* vector of the text, answer with an array of which one element is no
\* number, answer without an array, or fail (HTTP error, timeout)
EmbeddingAnswers(file) ==
  { [kind |-> "array", embedding |-> file.vec],
    [kind |-> "notArray", embedding |-> <<>>],
    [kind |-> "error", embedding |-> <<>>] }
    \cup (IF file.vec = <<>> THEN {}
          ELSE { [kind |-> "array",
                  embedding |-> [file.vec EXCEPT ![Len(file.vec)] = NotANumber]] })

\* the answers of an embedding model that is down
EmbeddingFailures(file) == { [kind |-> "error", embedding |-> <<>>] }

\* generateEmbedding that checks the elements of the array it got
GenerateEmbeddingChecked(answer) ==
  IF answer.kind = "array" /\ \A i \in 1..Len(answer.embedding) :
                                 answer.embedding[i] # NotANumber
  THEN [ok |-> TRUE, embedding |-> answer.embedding, error |-> ""]
  ELSE [ok |-> FALSE, embedding |-> <<>>,
        error |-> "Failed to generate embedding: Invalid embedding response from Ollama"]

\* generateEmbedding: returns response.data.embedding when it is an array,
\* throws otherwise
generateEmbedding(answer) ==
  IF answer.kind = "array"
  THEN [ok |-> TRUE, embedding |-> answer.embedding, error |-> ""]
  ELSE IF answer.kind = "notArray"
  THEN [ok |-> FALSE, embedding |-> <<>>,
        error |-> "Failed to generate embedding: Invalid embedding response from Ollama"]
  ELSE [ok |-> FALSE, embedding |-> <<>>,
        error |-> "Failed to generate embedding: request failed"]

\* `[Similar to: ${bestMatch.filename}]\n\n${bestMatch.ai_summary}`
SimilarAnnotation(filename, ai_summary) ==
  <<"[Similar to: ", filename, "]\n\n">> \o ai_summary

(***************************************************************************)
(* Cosine similarity.  An embedding is a sequence of integers; an element  *)
(* of a stored JSON array that is no number (a string, an object) is       *)
(* NotANumber: every product and sum it takes part in is NaN.  A score is  *)
(* the real number num / sqrt(sq), kept exactly as the pair (num, sq) with *)
(* sq > 0, and NaN is the pair (0, 0); a threshold is the rational p / q   *)
(* with q > 0.  x |-> x * |x| is increasing, so scores are compared by     *)
(* their signed squares; every comparison with NaN is false.               *)
(***************************************************************************)
\* x * y and x + y of JavaScript numbers
Times(x, y) == IF x = NotANumber \/ y = NotANumber THEN NotANumber ELSE x * y
Plus(x, y) == IF x = NotANumber \/ y = NotANumber THEN NotANumber ELSE x + y

\* the for loop of calculateCosineSimilarity, for one of its three sums
RECURSIVE DotProduct(_, _)
DotProduct(vec1, vec2) ==
  IF vec1 = <<>> \/ vec2 = <<>> THEN 0
  ELSE Plus(Times(Head(vec1), Head(vec2)), DotProduct(Tail(vec1), Tail(vec2)))

ZeroScore == [num |-> 0, sq |-> 1]
NaNScore == [num |-> 0, sq |-> 0]

\* calculateCosineSimilarity with the test for a zero magnitude left out:
\* the division is made whatever the magnitudes are
CosineUnguarded(vec1, vec2) ==
  IF Len(vec1) # Len(vec2) THEN ZeroScore
  ELSE LET dotProduct == DotProduct(vec1, vec2)
           magnitude1 == DotProduct(vec1, vec1)
           magnitude2 == DotProduct(vec2, vec2)
       IN IF NotANumber \in {dotProduct, magnitude1, magnitude2}
             \/ magnitude1 = 0 \/ magnitude2 = 0
          THEN NaNScore
          ELSE [num |-> dotProduct, sq |-> magnitude1 * magnitude2]

calculateCosineSimilarity(vec1, vec2) ==
  IF Len(vec1) # Len(vec2) THEN ZeroScore
  ELSE LET dotProduct == DotProduct(vec1, vec2)
           magnitude1 == DotProduct(vec1, vec1)
           magnitude2 == DotProduct(vec2, vec2)
       IN IF magnitude1 = 0 \/ magnitude2 = 0 THEN ZeroScore
          ELSE IF NotANumber \in {dotProduct, magnitude1, magnitude2}
          THEN NaNScore
          ELSE [num |-> dotProduct, sq |-> magnitude1 * magnitude2]

SignedSquare(x) == IF x < 0 THEN -(x * x) ELSE x * x

\* score > p/q
ScoreAbove(score, t) ==
  /\ score.sq # 0
  /\ SignedSquare(score.num) * t.q * t.q > SignedSquare(t.p) * score.sq

\* the comparison > taken for >=
StrictlyAbove(score, t) == ScoreAbove(score, t)

\* score >= p/q
ScoreAtLeast(score, t) ==
  /\ score.sq # 0
  /\ SignedSquare(score.num) * t.q * t.q >= SignedSquare(t.p) * score.sq

\* a < b for two scores
ScoreLess(a, b) ==
  /\ a.sq # 0 /\ b.sq # 0
  /\ SignedSquare(a.num) * b.sq < SignedSquare(b.num) * a.sq

(***************************************************************************)
(* The value line 1270 returns.  JavaScript numbers are binary floating    *)
(* point numbers: Math.sqrt, * and / each round their exact result to the  *)
(* nearest number with a significand of Precision bits (ties to even); a   *)
(* double has 53.  A number is m * 2^e with 2^(Precision-1) <= |m| <       *)
(* 2^Precision, or 0.  The three sums of the loop are exact (integers      *)
(* below 2^Precision).                                                     *)
(***************************************************************************)
Precision == 7

RECURSIVE Pow2(_)
Pow2(k) == IF k = 0 THEN 1 ELSE 2 * Pow2(k - 1)

FloatZero == [m |-> 0, e |-> 0]
FloatOne == [m |-> Pow2(Precision - 1), e |-> 1 - Precision]

\* (n / d) * 2^e rounded to the nearest number, for n > 0 and d > 0
RECURSIVE RoundToNearest(_, _, _)
RoundToNearest(n, d, e) ==
  IF n >= Pow2(Precision) * d THEN RoundToNearest(n, 2 * d, e + 1)
  ELSE IF n < Pow2(Precision - 1) * d THEN RoundToNearest(2 * n, d, e - 1)
  ELSE LET q == n \div d
           r == n % d
           m == IF 2 * r > d \/ (2 * r = d /\ q % 2 = 1) THEN q + 1 ELSE q
       IN IF m = Pow2(Precision)
          THEN [m |-> Pow2(Precision - 1), e |-> e + 1]
          ELSE [m |-> m, e |-> e]

\* Math.sqrt(n) for an integer 0 < n < 4^Precision: n is scaled by 4^k until
\* its integer square root has Precision bits
RECURSIVE FloatSqrtScaled(_, _)
FloatSqrtScaled(n, k) ==
  IF n < Pow2(2 * (Precision - 1)) THEN FloatSqrtScaled(4 * n, k + 1)
  ELSE LET s == CHOOSE x \in 0..Pow2(Precision) :
                  x * x <= n /\ (x + 1) * (x + 1) > n
           m == IF (2 * s + 1) * (2 * s + 1) < 4 * n THEN s + 1 ELSE s
       IN IF m = Pow2(Precision)
          THEN [m |-> Pow2(Precision - 1), e |-> 1 - k]
          ELSE [m |-> m, e |-> -k]

FloatSqrt(n) == FloatSqrtScaled(n, 0)

\* a * b of two positive numbers
FloatTimes(a, b) == RoundToNearest(a.m * b.m, 1, a.e + b.e)

\* n / b for an integer n and a positive number b
FloatDivide(n, b) ==
  IF n = 0 THEN FloatZero
  ELSE LET abs == RoundToNearest(IF n < 0 THEN -n ELSE n, b.m, -b.e)
       IN IF n < 0 THEN [abs EXCEPT !.m = -abs.m] ELSE abs

\* |x| <= 1
FloatWithinOne(x) ==
  LET abs == IF x.m < 0 THEN -x.m ELSE x.m
  IN IF x.e >= 0 THEN abs * Pow2(x.e) <= 1 ELSE abs <= Pow2(-x.e)

\* dotProduct / (Math.sqrt(magnitude1) * Math.sqrt(magnitude2)) as the
\* function computes it, for two arrays of numbers
CosineQuotient(vec1, vec2) ==
  IF Len(vec1) # Len(vec2) THEN FloatZero
  ELSE LET dotProduct == DotProduct(vec1, vec2)
           magnitude1 == DotProduct(vec1, vec1)
           magnitude2 == DotProduct(vec2, vec2)
       IN IF magnitude1 = 0 \/ magnitude2 = 0 THEN FloatZero
          ELSE FloatDivide(dotProduct,
                           FloatTimes(FloatSqrt(magnitude1), FloatSqrt(magnitude2)))

\* process.env.SIMILARITY_THRESHOLD || 0.85
SIMILARITY_THRESHOLD == [p |-> 85, q |-> 100]
\* process.env.MAX_SIMILAR_DOCUMENTS || 5
MAX_SIMILAR_DOCUMENTS == 5
\* the early termination constant 0.95 of findSimilarDocuments
EarlyTermination == [p |-> 95, q |-> 100]

\* the rows init.sql puts into rag_settings
ragSettings ==
  [similarity_threshold |-> [p |-> 85, q |-> 100], max_similar_documents |-> 5]

\* getRagSetting(key) || fallback
getRagSetting(key, fallback) ==
  IF key \in DOMAIN ragSettings THEN ragSettings[key] ELSE fallback

(***************************************************************************)
(* The documents table.  docs is the sequence of its rows in insertion     *)
(* order; the row at position i has id i (AUTO_INCREMENT).                 *)
(***************************************************************************)
NoDoc == [id |-> 0]

\* getDocumentByHash answering with the wrong row: when some row has the
\* hash, the first row of the table
GetFirstDocument(rows, fileHash) ==
  IF \E i \in 1..Len(rows) : rows[i].file_hash = fileHash
  THEN rows[1]
  ELSE NoDoc

\* SELECT ... FROM documents WHERE file_hash = ?  (first row or null)
getDocumentByHash(rows, fileHash) ==
  IF \E i \in 1..Len(rows) : rows[i].file_hash = fileHash
  THEN rows[CHOOSE i \in 1..Len(rows) : rows[i].file_hash = fileHash]
  ELSE NoDoc

\* insertDocument on a table whose file_hash column is not UNIQUE
InsertWithoutUnique(rows, document, createdAt) ==
  [ok |-> TRUE,
   rows |-> Append(rows, [id |-> Len(rows) + 1,
                          filename |-> document.filename,
                          file_hash |-> document.file_hash,
                          extracted_text |-> document.extracted_text,
                          ai_summary |-> document.ai_summary,
                          embedding |-> document.embedding,
                          created_at |-> createdAt]),
   insertId |-> Len(rows) + 1,
   error |-> ""]

\* insertDocument written as an upsert (INSERT ... ON DUPLICATE KEY UPDATE):
\* the row that holds the hash is overwritten in place
InsertOrReplace(rows, document, createdAt) ==
  IF \E i \in 1..Len(rows) : rows[i].file_hash = document.file_hash
  THEN LET i == CHOOSE k \in 1..Len(rows) :
                  rows[k].file_hash = document.file_hash
       IN [ok |-> TRUE,
           rows |-> [rows EXCEPT ![i] = [id |-> i,
                                         filename |-> document.filename,
                                         file_hash |-> document.file_hash,
                                         extracted_text |-> document.extracted_text,
                                         ai_summary |-> document.ai_summary,
                                         embedding |-> document.embedding,
                                         created_at |-> createdAt]],
           insertId |-> i,
           error |-> ""]
  ELSE InsertWithoutUnique(rows, document, createdAt)

\* INSERT INTO documents ...: the UNIQUE constraint on file_hash rejects a
\* second row with the same hash (the query throws, no row is added);
\* createdAt is CURRENT_TIMESTAMP
insertDocument(rows, document, createdAt) ==
  IF \E i \in 1..Len(rows) : rows[i].file_hash = document.file_hash
  THEN [ok |-> FALSE, rows |-> rows, insertId |-> 0, error |-> "ER_DUP_ENTRY"]
  ELSE [ok |-> TRUE,
        rows |-> Append(rows, [id |-> Len(rows) + 1,
                               filename |-> document.filename,
                               file_hash |-> document.file_hash,
                               extracted_text |-> document.extracted_text,
                               ai_summary |-> document.ai_summary,
                               embedding |-> document.embedding,
                               created_at |-> createdAt]),
        insertId |-> Len(rows) + 1,
        error |-> ""]

\* the values CURRENT_TIMESTAMP may take for the next row: the second of
\* the newest row, or a later one
Timestamps(rows) ==
  IF rows = <<>> THEN {1}
  ELSE {rows[Len(rows)].created_at, rows[Len(rows)].created_at + 1}

\* SELECT ... FROM documents ORDER BY created_at DESC: every order of the
\* rows the query may return (rows of the same second come in any order)
OrderedByCreatedAtDesc(rows) ==
  LET n == Len(rows)
      perms == { f \in [1..n -> 1..n] :
                   /\ \A i, j \in 1..n : i # j => f[i] # f[j]
                   /\ \A i, j \in 1..n :
                        i < j => rows[f[i]].created_at >= rows[f[j]].created_at }
  IN { [i \in 1..n |-> rows[f[i]]] : f \in perms }

\* the scan without early termination: every row is compared
RECURSIVE ScanAll(_, _, _, _)
ScanAll(allDocs, embedding, threshold, similarities) ==
  IF allDocs = <<>> THEN similarities
  ELSE LET doc == Head(allDocs)
           similarity == calculateCosineSimilarity(embedding, doc.embedding)
       IN ScanAll(Tail(allDocs), embedding, threshold,
                  IF ScoreAtLeast(similarity, threshold)
                  THEN Append(similarities,
                              [id |-> doc.id,
                               filename |-> doc.filename,
                               file_hash |-> doc.file_hash,
                               ai_summary |-> doc.ai_summary,
                               created_at |-> doc.created_at,
                               similarity_score |-> similarity])
                  ELSE similarities)

\* the for loop of findSimilarDocuments: keep the rows at or above the
\* threshold, stop after the first one above 0.95
RECURSIVE ScanDocs(_, _, _, _)
ScanDocs(allDocs, embedding, threshold, similarities) ==
  IF allDocs = <<>> THEN similarities
  ELSE LET doc == Head(allDocs)
           similarity == calculateCosineSimilarity(embedding, doc.embedding)
           pushed == Append(similarities,
                            [id |-> doc.id,
                             filename |-> doc.filename,
                             file_hash |-> doc.file_hash,
                             ai_summary |-> doc.ai_summary,
                             created_at |-> doc.created_at,
                             similarity_score |-> similarity])
       IN IF ScoreAtLeast(similarity, threshold)
          THEN IF ScoreAbove(similarity, EarlyTermination)
               THEN pushed
               ELSE ScanDocs(Tail(allDocs), embedding, threshold, pushed)
          ELSE ScanDocs(Tail(allDocs), embedding, threshold, similarities)

\* a sort that leaves the entries in the order of the scan
KeepScanOrder(similarities) == similarities

\* a sort that is not stable: an entry goes before the entries of its score
RECURSIVE SortUnstable(_)
SortUnstable(similarities) ==
  IF similarities = <<>> THEN <<>>
  ELSE LET n == Len(similarities)
           last == similarities[n]
           sorted == SortUnstable(SubSeq(similarities, 1, n - 1))
           k == Cardinality({ i \in 1..(n - 1) :
                                ScoreLess(last.similarity_score,
                                          sorted[i].similarity_score) })
       IN SubSeq(sorted, 1, k) \o <<last>> \o SubSeq(sorted, k + 1, n - 1)

\* similarities.sort((a, b) => b.similarity_score - a.similarity_score):
\* Array.prototype.sort is stable, entries of equal score keep their order
RECURSIVE SortByScoreDesc(_)
SortByScoreDesc(similarities) ==
  IF similarities = <<>> THEN <<>>
  ELSE LET n == Len(similarities)
           last == similarities[n]
           sorted == SortByScoreDesc(SubSeq(similarities, 1, n - 1))
           \* last goes after every entry whose score is >= its own
           k == Cardinality({ i \in 1..(n - 1) :
                                ~ScoreLess(sorted[i].similarity_score,
                                           last.similarity_score) })
       IN SubSeq(sorted, 1, k) \o <<last>> \o SubSeq(sorted, k + 1, n - 1)

\* findSimilarDocuments(embedding, threshold, limit); dbOk = FALSE is the
\* query throwing, which the function catches and answers with []
findSimilarDocuments(dbOk, allDocs, embedding, threshold, limit) ==
  IF ~dbOk \/ allDocs = <<>> THEN <<>>
  ELSE LET similarities == ScanDocs(allDocs, embedding, threshold, <<>>)
           sorted == SortByScoreDesc(similarities)
       IN SubSeq(sorted, 1, IF limit < Len(sorted) THEN limit ELSE Len(sorted))

(***************************************************************************)
(* The objects processDocumentWithRAG returns.  A field the code leaves    *)
(* out (undefined) is FALSE, 0 or "" here.                                 *)
(***************************************************************************)
NoResult ==
  [isFromRAG |-> FALSE, aiSummary |-> Null, exactMatch |-> FALSE,
   matchedId |-> 0, needsAiGeneration |-> FALSE, newDocumentId |-> 0,
   error |-> "", similarCount |-> 0, fileHash |-> 0, embedding |-> <<>>]

\* if (!RAG_ENABLED) return {isFromRAG: false, aiSummary, similarDocuments: []}
DisabledResult(aiSummary) ==
  [NoResult EXCEPT !.aiSummary = aiSummary]

\* the exact match return
ExactMatchResult(existingDoc) ==
  [NoResult EXCEPT !.isFromRAG = TRUE,
                   !.aiSummary = existingDoc.ai_summary,
                   !.exactMatch = TRUE,
                   !.matchedId = existingDoc.id]

\* the similar match return
SimilarMatchResult(bestMatch, similarDocs) ==
  [NoResult EXCEPT !.isFromRAG = TRUE,
                   !.aiSummary = bestMatch.ai_summary,
                   !.matchedId = bestMatch.id,
                   !.similarCount = Len(similarDocs)]

\* a needsAiGeneration return that leaves out the hash and the embedding
NeedsAiWithoutKeys(similarDocs, fileHash, embedding) ==
  [NoResult EXCEPT !.needsAiGeneration = TRUE,
                   !.similarCount = Len(similarDocs)]

\* aiSummary === null: nothing stored, the caller has to generate
NeedsAiResult(similarDocs, fileHash, embedding) ==
  [NoResult EXCEPT !.needsAiGeneration = TRUE,
                   !.similarCount = Len(similarDocs),
                   !.fileHash = fileHash,
                   !.embedding = embedding]

\* the new document was stored
StoredResult(aiSummary, similarDocs, documentId) ==
  [NoResult EXCEPT !.aiSummary = aiSummary,
                   !.newDocumentId = documentId,
                   !.similarCount = Len(similarDocs)]

\* a catch block that forgets the summary it was given
FallbackWithoutSummary(aiSummary, message) ==
  [NoResult EXCEPT !.error = message]

\* the catch block: fall back to normal processing
FallbackResult(aiSummary, message) ==
  [NoResult EXCEPT !.aiSummary = aiSummary, !.error = message]

\* the outcome a returned object stands for
Outcome(ret) ==
  IF ret.exactMatch THEN "ExactMatch"
  ELSE IF ret.isFromRAG THEN "SimilarMatch"
  ELSE IF ret.error # "" THEN "Fallback"
  ELSE IF ret.needsAiGeneration THEN "NeedsAiGeneration"
  ELSE IF ret.newDocumentId # 0 THEN "Generated"
  ELSE "Disabled"

\* the row processDocumentWithRAG hands to insertDocument
NewDocument(file, extractedText, aiSummary, embedding) ==
  [filename |-> file.originalname,
   file_hash |-> generateFileHash(file.buffer),
   extracted_text |-> extractedText,
   ai_summary |-> aiSummary,
   embedding |-> embedding]

NoDocument == NewDocument(NoFile, "", Null, <<>>)

\* /analyze: aiResponse after processDocumentWithRAG has returned
AnalyzeResponse(ragResult, newAiSummary) ==
  IF ragResult.isFromRAG THEN ragResult.aiSummary ELSE newAiSummary

(***************************************************************************)
(* Requests.  kind "analyze" is POST /analyze with a PDF and action        *)
(* 'resumer'; kind "process" is a direct call of the exported              *)
(* processDocumentWithRAG(file, extractedText, aiSummary).                 *)
(***************************************************************************)
\* what GET /rag/status and POST /rag/search report (nothing yet)
NoInfo ==
  [enabled |-> FALSE, total_documents |-> 0, stats_error |-> FALSE,
   embedding_success |-> FALSE, dimension |-> 0, total_results |-> 0]

IdleReq ==
  [pc |-> "idle", kind |-> "none", file |-> NoFile, aiSummary |-> Null,
   embedding |-> <<>>, threshold |-> SIMILARITY_THRESHOLD,
   maxDocs |-> MAX_SIMILAR_DOCUMENTS, similarDocs |-> <<>>,
   document |-> NoDocument, ret |-> NoResult, response |-> Null,
   genCalls |-> 0, embedCalls |-> 0, lookups |-> 0, scans |-> 0,
   inserted |-> 0, failed |-> {}, genFailed |-> FALSE, malformed |-> FALSE,
   status |-> 0, action |-> "", info |-> NoInfo]

InFlight == { r \in Reqs : req[r].pc \notin {"idle", "done"} }

CanStart(r) ==
  /\ req[r].pc = "idle"
  /\ IF r = 1 THEN TRUE ELSE req[r - 1].pc # "idle"
  /\ Cardinality(InFlight) < MaxInFlight

\* processDocumentWithRAG returns ret; for /analyze the handler goes on in
\* the same turn to build the response and sends it (res.download, 200);
\* the local variables of the call are gone
Return(rec, ret) ==
  [rec EXCEPT !.pc = "done",
              !.embedding = <<>>,
              !.similarDocs = <<>>,
              !.document = NoDocument,
              !.ret = ret,
              !.response = IF rec.kind = "analyze"
                           THEN AnalyzeResponse(ret, rec.aiSummary)
                           ELSE ret.aiSummary,
              !.status = IF rec.kind = "analyze" THEN 200 ELSE 0]

\* no function of the search has been called on its own
NoCall ==
  [fn |-> "none", dbOk |-> TRUE, allDocs |-> <<>>, embedding |-> <<>>,
   threshold |-> SIMILARITY_THRESHOLD, limit |-> 0, result |-> <<>>,
   vec1 |-> <<>>, vec2 |-> <<>>, score |-> ZeroScore, quotient |-> FloatZero,
   text |-> <<>>, maxChars |-> 0, chunks |-> <<>>]

\* the documents table when the server starts: empty, or holding the row a
\* process of an earlier run has stored for a.pdf (the table outlives the
\* server)
InitialStores ==
  { <<>>,
    insertDocument(<<>>,
                   NewDocument([buffer |-> <<1>>, originalname |-> "a.pdf",
                                text |-> "t1", vec |-> <<1, 0>>],
                               "t1", <<"s1">>, <<1, 0>>),
                   1).rows }

Init ==
  /\ docs \in InitialStores
  /\ req = [r \in Reqs |-> IdleReq]
  /\ ragEnabled \in BOOLEAN
  /\ call = NoCall

\* the values of the form field "action" (missing: "")
Actions == {"resumer", ""}

MissingText == <<"Fichier ou action manquant.">>

\* a handler without the check of line 836
NothingMissing(file, action) == FALSE

\* !file || !action
MissingInput(file, action) == file = NoFile \/ action = ""

\* POST /analyze arrives: without a file or without an action it is
\* answered 400 at once; with a PDF and 'resumer' the text is extracted and
\* the handler awaits summarizeLongText
StartAnalyze(r) ==
  /\ CanStart(r)
  /\ \E f \in Files \cup {NoFile}, action \in Actions :
       LET rec == [IdleReq EXCEPT !.kind = "analyze",
                                  !.file = f,
                                  !.action = action]
       IN req' = [req EXCEPT ![r] =
                    IF MissingInput(f, action)
                    THEN [rec EXCEPT !.pc = "done",
                                     !.status = 400,
                                     !.response = MissingText]
                    ELSE [rec EXCEPT !.pc = "summarize"]]
  /\ UNCHANGED <<docs, ragEnabled, call>>

\* a handler that calls processDocumentWithRAG whatever RAG_ENABLED says,
\* and a processDocumentWithRAG without the check of line 82
SummarizeThenLookup(r) ==
  /\ req[r].pc = "summarize"
  /\ \E answer \in OllamaAnswers :
       req' = [req EXCEPT ![r] = [req[r] EXCEPT
                 !.aiSummary = generateText(answer),
                 !.genCalls = @ + 1,
                 !.genFailed = (answer.kind = "error"),
                 !.pc = "lookup"]]
  /\ UNCHANGED <<docs, ragEnabled, call>>

\* summarizeLongText answers (one chunk: one call of generateText); with
\* RAG enabled the handler then calls processDocumentWithRAG, which runs up
\* to its first await (the hash lookup)
Summarize(r) ==
  /\ req[r].pc = "summarize"
  /\ \E answer \in OllamaAnswers :
       LET newAiSummary == generateText(answer)
           rec == [req[r] EXCEPT !.aiSummary = newAiSummary,
                                 !.genCalls = @ + 1,
                                 !.genFailed = (answer.kind = "error")]
       IN req' = [req EXCEPT ![r] =
                    IF ragEnabled
                    THEN [rec EXCEPT !.pc = "lookup"]
                    ELSE [rec EXCEPT !.pc = "done",
                                     !.ret = DisabledResult(newAiSummary),
                                     !.response = newAiSummary,
                                     !.status = 200]]
  /\ UNCHANGED <<docs, ragEnabled, call>>

\* a direct call processDocumentWithRAG(file, extractedText, aiSummary)
StartProcess(r) ==
  /\ CanStart(r)
  /\ \E f \in Files, aiSummary \in {Null} :
       LET rec == [IdleReq EXCEPT !.kind = "process",
                                  !.file = f,
                                  !.aiSummary = aiSummary]
       IN req' = [req EXCEPT ![r] =
                    IF ragEnabled
                    THEN [rec EXCEPT !.pc = "lookup"]
                    ELSE Return(rec, DisabledResult(aiSummary))]
  /\ UNCHANGED <<docs, ragEnabled, call>>

\* Step 2: getDocumentByHash answers (or the query throws)
Lookup(r) ==
  /\ req[r].pc = "lookup"
  /\ \E dbOk \in BOOLEAN :
       LET rec == [req[r] EXCEPT !.lookups = @ + 1]
           existingDoc == getDocumentByHash(docs, generateFileHash(rec.file.buffer))
       IN req' = [req EXCEPT ![r] =
                    IF ~dbOk
                    THEN Return([rec EXCEPT !.failed = @ \cup {"lookup"}],
                                FallbackResult(rec.aiSummary, "lookup failed"))
                    ELSE IF existingDoc # NoDoc
                    THEN Return(rec, ExactMatchResult(existingDoc))
                    ELSE [rec EXCEPT !.pc = "embed"]]
  /\ UNCHANGED <<docs, ragEnabled, call>>

\* Step 3: generateEmbedding answers (or throws); answers is what the
\* embedding model may do
EmbedWith(r, answers) ==
  /\ req[r].pc = "embed"
  /\ \E answer \in answers :
       LET got == generateEmbedding(answer)
           rec == [req[r] EXCEPT
                     !.embedCalls = @ + 1,
                     !.malformed = \/ answer.kind = "notArray"
                                   \/ \E i \in 1..Len(answer.embedding) :
                                        answer.embedding[i] = NotANumber]
       IN req' = [req EXCEPT ![r] =
                    IF ~got.ok
                    THEN Return([rec EXCEPT !.failed = @ \cup {"embed"}],
                                FallbackResult(rec.aiSummary, got.error))
                    ELSE [rec EXCEPT !.pc = "settings",
                                     !.embedding = got.embedding]]
  /\ UNCHANGED <<docs, ragEnabled, call>>

Embed(r) == EmbedWith(r, EmbeddingAnswers(req[r].file))

\* Step 3 while the embedding model is down: every call fails
EmbedDown(r) == EmbedWith(r, EmbeddingFailures(req[r].file))

\* Step 4, first half: the two getRagSetting queries answer (or throw)
Settings(r) ==
  /\ req[r].pc = "settings"
  /\ \E dbOk \in BOOLEAN :
       req' = [req EXCEPT ![r] =
                 IF ~dbOk
                 THEN Return([req[r] EXCEPT !.failed = @ \cup {"settings"}],
                             FallbackResult(req[r].aiSummary, "settings failed"))
                 ELSE [req[r] EXCEPT
                         !.pc = "scan",
                         !.threshold = getRagSetting("similarity_threshold",
                                                     SIMILARITY_THRESHOLD),
                         !.maxDocs = getRagSetting("max_similar_documents",
                                                   MAX_SIMILAR_DOCUMENTS)]]
  /\ UNCHANGED <<docs, ragEnabled, call>>

\* Step 5 and 6 up to the next await: what to do with the search result
AfterSearch(rec, similarDocs) ==
  LET base == [rec EXCEPT !.similarDocs = similarDocs]
      useExistingSummary ==
        /\ similarDocs # <<>>
        /\ ScoreAtLeast(similarDocs[1].similarity_score, rec.threshold)
  IN IF useExistingSummary
     THEN [base EXCEPT
             !.pc = "insert",
             !.document = NewDocument(rec.file, rec.file.text,
                            SimilarAnnotation(similarDocs[1].filename,
                                              similarDocs[1].ai_summary),
                            rec.embedding)]
     ELSE IF rec.aiSummary = Null
     THEN Return(base, NeedsAiResult(similarDocs,
                                     generateFileHash(rec.file.buffer),
                                     rec.embedding))
     ELSE [base EXCEPT
             !.pc = "insert",
             !.document = NewDocument(rec.file, rec.file.text, rec.aiSummary,
                                      rec.embedding)]

\* Step 4, second half: findSimilarDocuments answers
Scan(r) ==
  /\ req[r].pc = "scan"
  /\ \E dbOk \in BOOLEAN, allDocs \in OrderedByCreatedAtDesc(docs) :
       LET rec == [req[r] EXCEPT
                     !.scans = @ + 1,
                     !.failed = IF dbOk THEN @ ELSE @ \cup {"scan"}]
           similarDocs == findSimilarDocuments(dbOk, allDocs, rec.embedding,
                                               rec.threshold, rec.maxDocs)
       IN req' = [req EXCEPT ![r] = AfterSearch(rec, similarDocs)]
  /\ UNCHANGED <<docs, ragEnabled, call>>

\* a statement after the insert throws: the catch block answers although
\* the row is stored
AfterInsertThrows(rec, res) ==
  FallbackResult(rec.aiSummary, IF res.ok THEN "TypeError" ELSE res.error)

\* what processDocumentWithRAG returns once insertDocument has answered
AfterInsert(rec, res) ==
  IF ~res.ok
  THEN FallbackResult(rec.aiSummary, res.error)
  ELSE IF rec.similarDocs # <<>>
  THEN SimilarMatchResult(rec.similarDocs[1], rec.similarDocs)
  ELSE StoredResult(rec.aiSummary, rec.similarDocs, res.insertId)

\* insertDocument answers: the row is stored, or the query throws (store
\* unreachable, or the UNIQUE constraint)
Insert(r) ==
  /\ req[r].pc = "insert"
  /\ \E dbOk \in BOOLEAN, createdAt \in Timestamps(docs) :
       LET res == IF dbOk
                  THEN insertDocument(docs, req[r].document, createdAt)
                  ELSE [ok |-> FALSE, rows |-> docs, insertId |-> 0,
                        error |-> "store unavailable"]
           rec == [req[r] EXCEPT
                     !.inserted = @ + (Len(res.rows) - Len(docs)),
                     !.failed = IF res.ok THEN @
                                ELSE @ \cup {IF dbOk THEN "duplicate" ELSE "insert"}]
       IN /\ docs' = res.rows
          /\ req' = [req EXCEPT ![r] = Return(rec, AfterInsert(rec, res))]
  /\ UNCHANGED <<ragEnabled, call>>

(***************************************************************************)
(* GET /rag/status and POST /rag/search.                                   *)
(***************************************************************************)
\* getDatabaseStats: SELECT COUNT(*) FROM documents (and the statistics of
\* similarity_cache); a failing query is caught and answered with zeros
getDatabaseStats(dbOk, rows) ==
  IF dbOk THEN [total_documents |-> Len(rows), error |-> FALSE]
  ELSE [total_documents |-> 0, error |-> TRUE]

\* what /api/embeddings may do for "Test text for RAG status check"
TestEmbeddingAnswers ==
  { [kind |-> "array", embedding |-> <<1, 1>>],
    [kind |-> "notArray", embedding |-> <<>>],
    [kind |-> "error", embedding |-> <<>>] }

\* GET /rag/status arrives: getRagStatus reads the environment and awaits
\* getDatabaseStats
StartStatus(r) ==
  /\ CanStart(r)
  /\ req' = [req EXCEPT ![r] =
               [IdleReq EXCEPT !.kind = "status",
                               !.pc = "stats",
                               !.info = [NoInfo EXCEPT !.enabled = ragEnabled]]]
  /\ UNCHANGED <<docs, ragEnabled, call>>

\* getDatabaseStats answers; getRagStatus awaits the embedding test
Stats(r) ==
  /\ req[r].pc = "stats"
  /\ \E dbOk \in BOOLEAN :
       LET stats == getDatabaseStats(dbOk, docs)
       IN req' = [req EXCEPT ![r] =
                    [req[r] EXCEPT
                       !.pc = "embedTest",
                       !.info = [@ EXCEPT
                                   !.total_documents = stats.total_documents,
                                   !.stats_error = stats.error]]]
  /\ UNCHANGED <<docs, ragEnabled, call>>

\* a getRagStatus without the try around the embedding test: the handler's
\* catch answers 500
EmbedTestThrows(r) ==
  /\ req[r].pc = "embedTest"
  /\ \E answer \in TestEmbeddingAnswers :
       LET got == generateEmbedding(answer)
       IN req' = [req EXCEPT ![r] =
                    [req[r] EXCEPT
                       !.pc = "done",
                       !.embedCalls = @ + 1,
                       !.status = IF got.ok THEN 200 ELSE 500,
                       !.info = [@ EXCEPT
                                   !.embedding_success = got.ok,
                                   !.dimension = Len(got.embedding)]]]
  /\ UNCHANGED <<docs, ragEnabled, call>>

\* the embedding test answers (or throws, which getRagStatus catches);
\* the handler sends {success: true, rag_status}
EmbedTest(r) ==
  /\ req[r].pc = "embedTest"
  /\ \E answer \in TestEmbeddingAnswers :
       LET got == generateEmbedding(answer)
       IN req' = [req EXCEPT ![r] =
                    [req[r] EXCEPT
                       !.pc = "done",
                       !.embedCalls = @ + 1,
                       !.status = 200,
                       !.info = [@ EXCEPT
                                   !.embedding_success = got.ok,
                                   !.dimension = Len(got.embedding)]]]
  /\ UNCHANGED <<docs, ragEnabled, call>>

\* parseFloat(req.body.threshold) and parseInt(req.body.limit) of POST
\* /rag/search: NaN when the field is missing (a rational with q = 0,
\* NotANumber), or the number given
ThresholdInputs == {[p |-> 0, q |-> 0], [p |-> 0, q |-> 1], [p |-> -1, q |-> 2]}
LimitInputs == {NotANumber, 0, 1}

\* parseFloat(req.body.threshold) || 0.5: NaN and 0 give the default
SearchThreshold(input) ==
  IF input.q = 0 \/ input.p = 0 THEN [p |-> 1, q |-> 2] ELSE input

\* parseInt(req.body.limit) || 10: NaN and 0 give the default
SearchLimit(input) ==
  IF input = NotANumber \/ input = 0 THEN 10 ELSE input

\* extractedText.trim().length < 50, for the texts of Files
TooShort(text) == text = ""

\* POST /rag/search arrives: 400 without a file or with too little text,
\* else the handler awaits generateEmbedding
StartSearch(r) ==
  /\ CanStart(r)
  /\ \E f \in Files \cup {NoFile}, t \in ThresholdInputs, l \in LimitInputs :
       LET rec == [IdleReq EXCEPT !.kind = "search", !.file = f]
       IN req' = [req EXCEPT ![r] =
                    IF f = NoFile \/ TooShort(f.text)
                    THEN [rec EXCEPT !.pc = "done", !.status = 400]
                    ELSE [rec EXCEPT !.pc = "searchEmbed",
                                     !.threshold = SearchThreshold(t),
                                     !.maxDocs = SearchLimit(l)]]
  /\ UNCHANGED <<docs, ragEnabled, call>>

\* generateEmbedding answers (or throws: the handler's catch answers 500);
\* the handler awaits findSimilarDocuments
SearchEmbed(r) ==
  /\ req[r].pc = "searchEmbed"
  /\ \E answer \in EmbeddingAnswers(req[r].file) :
       LET got == generateEmbedding(answer)
           rec == [req[r] EXCEPT !.embedCalls = @ + 1]
       IN req' = [req EXCEPT ![r] =
                    IF ~got.ok
                    THEN [rec EXCEPT !.pc = "done",
                                     !.status = 500,
                                     !.failed = @ \cup {"embed"}]
                    ELSE [rec EXCEPT !.pc = "searchScan",
                                     !.embedding = got.embedding]]
  /\ UNCHANGED <<docs, ragEnabled, call>>

\* what the handler sends after findSimilarDocuments has answered
SearchAnswer(rec, similarDocuments) ==
  [rec EXCEPT !.pc = "done",
              !.status = 200,
              !.embedding = <<>>,
              !.info = [@ EXCEPT !.dimension = Len(rec.embedding),
                                 !.total_results = Len(similarDocuments)]]

\* a search that stores the file it was asked about
SearchScanStoring(r) ==
  /\ req[r].pc = "searchScan"
  /\ \E allDocs \in OrderedByCreatedAtDesc(docs), createdAt \in Timestamps(docs) :
       LET rec == [req[r] EXCEPT !.scans = @ + 1]
           similarDocuments ==
             findSimilarDocuments(TRUE, allDocs, rec.embedding, rec.threshold,
                                  rec.maxDocs)
       IN /\ req' = [req EXCEPT ![r] = SearchAnswer(rec, similarDocuments)]
          /\ docs' = insertDocument(docs,
                                    NewDocument(rec.file, rec.file.text, <<>>,
                                                rec.embedding),
                                    createdAt).rows
  /\ UNCHANGED <<ragEnabled, call>>

\* findSimilarDocuments answers; the handler sends the list
SearchScan(r) ==
  /\ req[r].pc = "searchScan"
  /\ \E dbOk \in BOOLEAN, allDocs \in OrderedByCreatedAtDesc(docs) :
       LET rec == [req[r] EXCEPT !.scans = @ + 1]
           similarDocuments ==
             findSimilarDocuments(dbOk, allDocs, rec.embedding, rec.threshold,
                                  rec.maxDocs)
       IN req' = [req EXCEPT ![r] = SearchAnswer(rec, similarDocuments)]
  /\ UNCHANGED <<docs, ragEnabled, call>>

Next ==
  \E r \in Reqs :
    \/ StartAnalyze(r)
    \/ Summarize(r)
    \/ StartProcess(r)
    \/ Lookup(r)
    \/ Embed(r)
    \/ Settings(r)
    \/ Scan(r)
    \/ Insert(r)
    \/ StartStatus(r)
    \/ Stats(r)
    \/ EmbedTest(r)
    \/ StartSearch(r)
    \/ SearchEmbed(r)
    \/ SearchScan(r)

Spec == Init /\ [][Next]_vars

\* the same requests, one after the other: a request starts only when no
\* other request is in flight
SeqNext ==
  \E r \in Reqs :
    \/ InFlight = {} /\ StartAnalyze(r)
    \/ Summarize(r)
    \/ InFlight = {} /\ StartProcess(r)
    \/ Lookup(r)
    \/ Embed(r)
    \/ Settings(r)
    \/ Scan(r)
    \/ Insert(r)

SeqSpec == Init /\ [][SeqNext]_vars

\* the requests while the embedding model is down: no request gets beyond
\* the embedding step.  Every awaited call answers or throws in the end
\* (the HTTP calls have timeouts), so a request in flight takes its next
\* step.
Step(r) == Summarize(r) \/ Lookup(r) \/ EmbedDown(r)

EmbedDownNext ==
  \E r \in Reqs :
    \/ StartAnalyze(r)
    \/ Summarize(r)
    \/ StartProcess(r)
    \/ Lookup(r)
    \/ EmbedDown(r)

\* RAG is enabled: only then a request gets to the embedding step
EmbedDownInit == Init /\ ragEnabled

EmbedDownSpec ==
  EmbedDownInit /\ [][EmbedDownNext]_vars /\ \A r \in Reqs : WF_vars(Step(r))

(***************************************************************************)
(* The functions of the similarity search called on their own: one call of *)
(* findSimilarDocuments on a documents table, or one call of               *)
(* calculateCosineSimilarity on two arrays.                                *)
(***************************************************************************)
\* rows of the documents table in a call of findSimilarDocuments
MaxRows == 3
\* the embedding arrays a row may hold: of the query's dimension, of zero
\* magnitude, of another dimension, and with an element that is no number
StoredEmbeddings ==
  { <<1, 0>>, <<2, 1>>, <<4, 3>>, <<0, 0>>, <<1>>, <<1, NotANumber>> }
QueryEmbeddings == { <<1, 0>>, <<2, 1>>, <<0, 0>> }
\* parseFloat(threshold): 0.85, 0.8, 0 and -0.5
Thresholds ==
  { [p |-> 85, q |-> 100], [p |-> 4, q |-> 5], [p |-> 0, q |-> 1],
    [p |-> -1, q |-> 2] }
\* parseInt(maxDocs)
Limits == { 1, 2, 5 }

\* what SELECT ... ORDER BY created_at DESC may return: n rows, the newest
\* first
QueryResults ==
  UNION { { [i \in 1..n |->
               [id |-> i, filename |-> "f", file_hash |-> i,
                extracted_text |-> "t", ai_summary |-> <<"s1">>,
                embedding |-> e[i], created_at |-> t[i]]] :
               e \in [1..n -> StoredEmbeddings],
               t \in { u \in [1..n -> 1..2] :
                         \A i, j \in 1..n : i < j => u[i] >= u[j] } } :
          n \in 0..MaxRows }

\* the arrays calculateCosineSimilarity is called with
Vectors ==
  [1..2 -> -1..3]
    \cup { <<>>, <<1>>, <<4, 3>>, <<1, NotANumber>>, <<0, NotANumber>> }

CallInit ==
  /\ docs = <<>>
  /\ req = [r \in Reqs |-> IdleReq]
  /\ ragEnabled = TRUE
  /\ call = NoCall

CallFindSimilarDocuments ==
  /\ call.fn = "none"
  /\ \E dbOk \in BOOLEAN, allDocs \in QueryResults,
        embedding \in QueryEmbeddings, threshold \in Thresholds,
        limit \in Limits :
       call' = [NoCall EXCEPT
                  !.fn = "findSimilarDocuments",
                  !.dbOk = dbOk,
                  !.allDocs = allDocs,
                  !.embedding = embedding,
                  !.threshold = threshold,
                  !.limit = limit,
                  !.result = findSimilarDocuments(dbOk, allDocs, embedding,
                                                  threshold, limit)]
  /\ UNCHANGED <<docs, req, ragEnabled>>

CallCalculateCosineSimilarity ==
  /\ call.fn = "none"
  /\ \E vec1 \in Vectors, vec2 \in Vectors :
       call' = [NoCall EXCEPT
                  !.fn = "calculateCosineSimilarity",
                  !.vec1 = vec1,
                  !.vec2 = vec2,
                  !.score = calculateCosineSimilarity(vec1, vec2),
                  !.quotient = IF IsNumeric(vec1) /\ IsNumeric(vec2)
                               THEN CosineQuotient(vec1, vec2)
                               ELSE FloatZero]
  /\ UNCHANGED <<docs, req, ragEnabled>>

CallNext ==
  \/ CallFindSimilarDocuments
  \/ CallCalculateCosineSimilarity

CallSpec == CallInit /\ [][CallNext]_vars

(***************************************************************************)
(* splitIntoSentenceChunks.  A string is the sequence of its characters;   *)
(* the texts are all strings of up to MaxTextLen characters over a letter, *)
(* a sentence end and a blank.                                             *)
(***************************************************************************)
MaxTextLen == 8
MaxChars == 3

Alphabet == {"a", ".", " "}

Texts == UNION { [1..n -> Alphabet] : n \in 0..MaxTextLen }

\* Number(process.env.SUMMARY_MAX_CHUNKS || 6)
SUMMARY_MAX_CHUNKS == 6

\* \s and [.!?] on the characters of Alphabet
IsSpace(c) == c = " "
IsSentenceEnd(c) == c = "."

\* the first position from i on that holds no blank (Len + 1 if none)
RECURSIVE SkipSpaces(_, _)
SkipSpaces(text, i) ==
  IF i > Len(text) THEN i
  ELSE IF IsSpace(text[i]) THEN SkipSpaces(text, i + 1)
  ELSE i

\* text.split(/(?<=[.!?])\s+/): the text is cut at every run of blanks that
\* follows a sentence end; the run is dropped, and a run at the end of the
\* text leaves an empty last piece
RECURSIVE SplitFrom(_, _, _, _)
SplitFrom(text, i, piece, pieces) ==
  IF i > Len(text) THEN Append(pieces, piece)
  ELSE IF IsSpace(text[i]) /\ i > 1 /\ IsSentenceEnd(text[i - 1])
  THEN SplitFrom(text, SkipSpaces(text, i), <<>>, Append(pieces, piece))
  ELSE SplitFrom(text, i + 1, Append(piece, text[i]), pieces)

SplitSentences(text) == SplitFrom(text, 1, <<>>, <<>>)

\* String.prototype.trim
RECURSIVE TrimStart(_)
TrimStart(str) ==
  IF str # <<>> /\ IsSpace(Head(str)) THEN TrimStart(Tail(str)) ELSE str

RECURSIVE TrimEnd(_)
TrimEnd(str) ==
  IF str # <<>> /\ IsSpace(str[Len(str)])
  THEN TrimEnd(SubSeq(str, 1, Len(str) - 1))
  ELSE str

Trim(str) == TrimEnd(TrimStart(str))

\* while (current.length > maxChars) { chunks.push(current.slice(0,
\* maxChars)); current = current.slice(maxChars); }
RECURSIVE HardSplit(_, _, _)
HardSplit(current, chunks, maxChars) ==
  IF Len(current) > maxChars
  THEN HardSplit(SubSeq(current, maxChars + 1, Len(current)),
                 Append(chunks, SubSeq(current, 1, maxChars)),
                 maxChars)
  ELSE [current |-> current, chunks |-> chunks]

\* the statement after the for loop
LastChunk(current, chunks) ==
  IF current # <<>> /\ Len(chunks) < SUMMARY_MAX_CHUNKS
  THEN Append(chunks, current)
  ELSE chunks

\* the for loop over the sentences, from sentence k on
RECURSIVE SentenceLoop(_, _, _, _, _)
SentenceLoop(sentences, k, current, chunks, maxChars) ==
  IF k > Len(sentences) THEN LastChunk(current, chunks)
  ELSE
    LET s == sentences[k]
    IN IF Len(Trim(current \o <<" ">> \o s)) <= maxChars
       THEN LET joined == (IF current # <<>> THEN current \o <<" ">> ELSE <<>>) \o s
            IN IF Len(chunks) >= SUMMARY_MAX_CHUNKS
               THEN LastChunk(joined, chunks)
               ELSE SentenceLoop(sentences, k + 1, joined, chunks, maxChars)
       ELSE LET pushed == IF current # <<>> THEN Append(chunks, current) ELSE chunks
                split == HardSplit(s, pushed, maxChars)
            IN IF Len(split.chunks) >= SUMMARY_MAX_CHUNKS
               THEN LastChunk(split.current, split.chunks)
               ELSE SentenceLoop(sentences, k + 1, split.current, split.chunks,
                                 maxChars)

splitIntoSentenceChunks(text, maxChars) ==
  IF Len(text) <= maxChars THEN <<text>>
  ELSE SentenceLoop(SplitSentences(text), 1, <<>>, <<>>, maxChars)

\* one call splitIntoSentenceChunks(text, maxChars)
CallSplitIntoSentenceChunks ==
  /\ call.fn = "none"
  /\ \E text \in Texts, maxChars \in 1..MaxChars :
       call' = [NoCall EXCEPT
                  !.fn = "splitIntoSentenceChunks",
                  !.text = text,
                  !.maxChars = maxChars,
                  !.chunks = splitIntoSentenceChunks(text, maxChars)]
  /\ UNCHANGED <<docs, req, ragEnabled>>

ChunkNext == CallSplitIntoSentenceChunks

ChunkSpec == CallInit /\ [][ChunkNext]_vars

(***************************************************************************)
(* Properties.                                                             *)
(***************************************************************************)
HashOf(r) == generateFileHash(req[r].file.buffer)

RowsWithHash(h) == { i \in 1..Len(docs) : docs[i].file_hash = h }

CacheFailures == {"lookup", "settings", "scan", "insert", "duplicate"}

\* C1 (checked under SeqSpec, where r1 < r2 means r1 had answered before r2
\* arrived): two uploads of the same bytes get the same result, and exactly
\* one row holds the file's hash.  Stated for the uploads during which
\* neither the store nor the embedding model failed (and that were not
\* rejected with 400), the case in which the first upload ended as Generated
\* or SimilarMatch.
IdempotentExactMatch ==
  ragEnabled =>
    \A r1, r2 \in Reqs :
      ( /\ r1 < r2
        /\ req[r1].pc = "done" /\ req[r2].pc = "done"
        /\ req[r1].kind = "analyze" /\ req[r2].kind = "analyze"
        /\ req[r1].status = 200 /\ req[r2].status = 200
        /\ req[r1].file.buffer = req[r2].file.buffer
        /\ req[r1].failed = {} /\ req[r2].failed = {} )
      => /\ req[r1].response = req[r2].response
         /\ Cardinality(RowsWithHash(HashOf(r1))) = 1

\* C2: in a PDF request with RAG enabled, no call of the generation model
\* and no embedding call happens before the hash lookup of that request.
HashLookupBeforeExpensiveCalls ==
  ragEnabled =>
    \A r \in Reqs :
      (req[r].kind = "analyze" /\ (req[r].genCalls > 0 \/ req[r].embedCalls > 0))
      => req[r].lookups > 0

\* C3: a request that ended as ExactMatch or SimilarMatch made no call of
\* the generation model.
GenerationOnlyWithoutMatch ==
  \A r \in Reqs :
    (req[r].pc = "done" /\ Outcome(req[r].ret) \in {"ExactMatch", "SimilarMatch"})
    => req[r].genCalls = 0

\* C4: a request whose generation call failed stores no row, and no stored
\* row holds the text generateText puts in the place of a failed generation.
GenerationFailureNotPersisted ==
  /\ \A r \in Reqs : req[r].genFailed => req[r].inserted = 0
  /\ \A i \in 1..Len(docs) : docs[i].ai_summary # ErrorText

\* C5: a POST /analyze whose insert was rejected by the UNIQUE constraint
\* looks the hash up again and ends as ExactMatch with the result stored by
\* the request that won the race, so that both callers get the same result.
DuplicateInsertReturnsWinnersResult ==
  \A r \in Reqs :
    (req[r].pc = "done" /\ req[r].kind = "analyze" /\ "duplicate" \in req[r].failed)
    => /\ req[r].lookups = 2
       /\ Outcome(req[r].ret) = "ExactMatch"
       /\ req[r].response = getDocumentByHash(docs, HashOf(r)).ai_summary
       /\ \A c \in Reqs \ {r} :
            ( /\ req[c].pc = "done" /\ req[c].inserted = 1
              /\ req[c].file.buffer = req[r].file.buffer )
            => req[r].response = req[c].response

\* C6: after every step no two rows share a file_hash, and a step in which
\* an insert is rejected for a duplicate hash leaves the table as it was.
UniqueContentHash ==
  [][ /\ \A i, j \in 1..Len(docs') :
           i # j => docs'[i].file_hash # docs'[j].file_hash
      /\ \A r \in Reqs :
           ("duplicate" \in req'[r].failed /\ "duplicate" \notin req[r].failed)
           => docs' = docs ]_vars

\* two requests for the same file both missed the hash check; one row is
\* stored and the second insert was rejected
RejectedDuplicateInsert ==
  \E r \in Reqs :
    /\ "duplicate" \in req[r].failed
    /\ Cardinality(RowsWithHash(HashOf(r))) = 1

\* C7: when the hash lookup of a request answers (the query does not fail)
\* after an upload of the same bytes has ended as Generated, the request
\* ends as ExactMatch, its result is the result the first upload returned,
\* and the table is unchanged (the request inserts nothing).
ReuploadIsExactMatch ==
  [][ \A r, c \in Reqs :
        ( /\ req[r].pc = "lookup" /\ req'[r].pc # "lookup"
          /\ "lookup" \notin req'[r].failed
          /\ req[c].pc = "done" /\ Outcome(req[c].ret) = "Generated"
          /\ req[c].file.buffer = req[r].file.buffer )
        => /\ req'[r].pc = "done"
           /\ Outcome(req'[r].ret) = "ExactMatch"
           /\ req'[r].ret.aiSummary = req[c].response
           /\ req'[r].response = req[c].response
           /\ req'[r].inserted = 0
           /\ docs' = docs ]_vars

\* a re-upload answered from the row of a Generated upload although its own
\* generation call had produced another text
ReuploadAnsweredFromStore ==
  \E r, c \in Reqs :
    /\ req[c].pc = "done" /\ Outcome(req[c].ret) = "Generated"
    /\ req[r].pc = "done" /\ Outcome(req[r].ret) = "ExactMatch"
    /\ req[r].kind = "analyze"
    /\ req[r].file.buffer = req[c].file.buffer
    /\ req[r].ret.matchedId = req[c].ret.newDocumentId
    /\ req[r].aiSummary # req[c].aiSummary
    /\ req[r].response = req[c].response

\* C8: on a SimilarMatch the caller gets the matched row's result, one row
\* is inserted for the file, and the result stored in that row is the
\* result returned to the caller.
SimilarMatchStoresReturnedResult ==
  \A r \in Reqs :
    (req[r].pc = "done" /\ Outcome(req[r].ret) = "SimilarMatch")
    => /\ req[r].inserted = 1
       /\ req[r].response = docs[req[r].ret.matchedId].ai_summary
       /\ getDocumentByHash(docs, HashOf(r)).ai_summary = req[r].response

\* C9: a request inserts at most one row; it has inserted exactly one when
\* it ends as SimilarMatch or as Generated, and none when it ends as
\* ExactMatch, with RAG disabled, needing generation, or in the catch block.
AtMostOneInsert ==
  \A r \in Reqs :
    /\ req[r].inserted \in {0, 1}
    /\ req[r].pc # "done" => req[r].inserted = 0
    /\ req[r].pc = "done" =>
         (req[r].inserted = 1
            <=> Outcome(req[r].ret) \in {"SimilarMatch", "Generated"})

\* one request ended as SimilarMatch with its row stored, another fell back
\* because its insert failed and stored nothing
InsertedOnMatchNotOnFallback ==
  \E r1, r2 \in Reqs :
    /\ req[r1].pc = "done" /\ Outcome(req[r1].ret) = "SimilarMatch"
    /\ req[r1].inserted = 1
    /\ req[r2].pc = "done" /\ Outcome(req[r2].ret) = "Fallback"
    /\ req[r2].failed \cap {"insert", "duplicate"} # {}
    /\ req[r2].inserted = 0

\* C10: a request whose generation succeeded and whose hash lookup,
\* settings lookup, similarity scan or insert failed is answered (200) with
\* the generated result, marked as not from the cache.
CacheFailureStillReturnsResult ==
  \A r \in Reqs :
    ( /\ req[r].pc = "done" /\ req[r].kind = "analyze"
      /\ ~req[r].genFailed
      /\ req[r].failed \cap CacheFailures # {} )
    => /\ req[r].status = 200
       /\ ~req[r].ret.isFromRAG
       /\ req[r].ret.aiSummary = req[r].aiSummary
       /\ req[r].response = req[r].aiSummary
       /\ req[r].aiSummary \in Summaries

\* the similarity scan failed, generation had succeeded, and the insert
\* failed afterwards: the caller still has the generated result
InsertFailedAfterGeneration ==
  \E r \in Reqs :
    /\ req[r].pc = "done" /\ req[r].kind = "analyze"
    /\ ~req[r].genFailed
    /\ {"scan", "insert"} \subseteq req[r].failed
    /\ req[r].response \in Summaries

\* C11 (EmbedDownSpec: every embedding call fails): a request for a file
\* with text that has missed the hash lookup ends in the fallback, without
\* a similarity search and without a row stored, and hands back the summary
\* it was given; POST /analyze answers 200 with the generated summary.
FallbackLiveness ==
  \A r \in Reqs :
    (req[r].pc = "embed" /\ req[r].file.text # "")
    ~> ( /\ req[r].pc = "done"
         /\ Outcome(req[r].ret) = "Fallback"
         /\ "embed" \in req[r].failed
         /\ req[r].scans = 0 /\ req[r].inserted = 0
         /\ req[r].ret.aiSummary = req[r].aiSummary
         /\ req[r].kind = "analyze" =>
              (req[r].status = 200 /\ req[r].response = req[r].aiSummary) )

\* a POST /analyze answered with its generated summary after the embedding
\* call had failed
EmbeddingDownFallback ==
  \E r \in Reqs :
    /\ req[r].pc = "done" /\ req[r].kind = "analyze"
    /\ req[r].file.text # ""
    /\ Outcome(req[r].ret) = "Fallback"
    /\ req[r].failed = {"embed"}
    /\ req[r].embedCalls = 1 /\ req[r].scans = 0
    /\ req[r].response \in Summaries

\* C19: a request for a file whose extracted text is empty makes no
\* embedding call and no similarity search.
ShortTextSkipsEmbedding ==
  \A r \in Reqs :
    req[r].file.text = "" => (req[r].embedCalls = 0 /\ req[r].scans = 0)

RowOf(entry) == call.allDocs[entry.id]

\* score < p/q and score = p/q, written out for the statements below
BelowThreshold(score, t) ==
  SignedSquare(score.num) * t.q * t.q < SignedSquare(t.p) * score.sq

EqualsThreshold(score, t) ==
  /\ score.sq # 0
  /\ SignedSquare(score.num) * t.q * t.q = SignedSquare(t.p) * score.sq

SameScore(a, b) ==
  /\ a.sq # 0 /\ b.sq # 0
  /\ SignedSquare(a.num) * b.sq = SignedSquare(b.num) * a.sq

ScoreOfRow(j) ==
  calculateCosineSimilarity(call.embedding, call.allDocs[j].embedding)

\* the position at which the scan stops early: the first row at or above
\* the threshold whose score exceeds 0.95 (0 when there is none)
StopIndex ==
  LET stops == { j \in 1..Len(call.allDocs) :
                   /\ ScoreAtLeast(ScoreOfRow(j), call.threshold)
                   /\ ScoreAbove(ScoreOfRow(j), EarlyTermination) }
  IN IF stops = {} THEN 0
     ELSE CHOOSE j \in stops : \A k \in stops : j <= k

Searched == call.fn = "findSimilarDocuments" /\ call.dbOk

\* C12: a row whose embedding has another length than the query's never
\* appears in the list findSimilarDocuments returns, whatever the threshold.
DimensionSafety ==
  call.fn = "findSimilarDocuments" =>
    \A i \in 1..Len(call.result) :
      Len(RowOf(call.result[i]).embedding) = Len(call.embedding)

\* C13: no entry of the returned list has a score below the threshold, and
\* a scanned row whose score equals the threshold is in the list unless the
\* limit has cut it off.
ThresholdExclusion ==
  Searched =>
    /\ \A i \in 1..Len(call.result) :
         ~BelowThreshold(call.result[i].similarity_score, call.threshold)
    /\ \A j \in 1..Len(call.allDocs) :
         ( /\ EqualsThreshold(ScoreOfRow(j), call.threshold)
           /\ (StopIndex = 0 \/ j <= StopIndex) )
         => \/ \E i \in 1..Len(call.result) : call.result[i].id = j
            \/ Len(call.result) = call.limit

\* a row whose score is exactly the threshold (0.8) is returned
EqualScoreIncluded ==
  /\ Searched
  /\ call.threshold = [p |-> 4, q |-> 5]
  /\ \E i \in 1..Len(call.result) :
       /\ EqualsThreshold(call.result[i].similarity_score, call.threshold)
       /\ call.result[i].similarity_score.num # 0

\* C14: the returned list is ordered by score, highest first, and has at
\* most limit entries.
OrderedAndLimited ==
  call.fn = "findSimilarDocuments" =>
    /\ Len(call.result) <= call.limit
    /\ \A i, j \in 1..Len(call.result) :
         i < j => ~ScoreLess(call.result[i].similarity_score,
                             call.result[j].similarity_score)

\* three rows were kept, the last one scanned has the highest score, and
\* the limit of two cut the list
SortedAndCut ==
  /\ Searched
  /\ call.limit = 2 /\ Len(call.result) = 2
  /\ Len(call.allDocs) = 3
  /\ \A j \in 1..3 : ScoreAtLeast(ScoreOfRow(j), call.threshold)
  /\ call.result[1].id = 3
  /\ ScoreLess(call.result[2].similarity_score, call.result[1].similarity_score)

\* C15: of two returned entries with exactly the same score, the one
\* created later comes first.
RecencyTieBreak ==
  call.fn = "findSimilarDocuments" =>
    \A i, j \in 1..Len(call.result) :
      ( /\ SameScore(call.result[i].similarity_score,
                     call.result[j].similarity_score)
        /\ call.result[i].created_at > call.result[j].created_at )
      => i < j

\* two rows of different seconds tie on a score between the threshold and
\* 0.95 and are both returned, behind a row scanned after them
TieReturned ==
  /\ Searched
  /\ Len(call.result) = 3
  /\ call.result[1].id = 3
  /\ SameScore(call.result[2].similarity_score, call.result[3].similarity_score)
  /\ call.result[2].created_at > call.result[3].created_at

\* the sorted list of every row at or above the threshold: what a scan
\* without early termination and without limit gives
RECURSIVE KeepAll(_, _)
KeepAll(j, kept) ==
  IF j > Len(call.allDocs) THEN kept
  ELSE KeepAll(j + 1,
               IF ScoreAtLeast(ScoreOfRow(j), call.threshold)
               THEN Append(kept, [id |-> j, similarity_score |-> ScoreOfRow(j)])
               ELSE kept)

FullScan == SortByScoreDesc(KeepAll(1, <<>>))

PositionInFullScan(id) == CHOOSE k \in 1..Len(FullScan) : FullScan[k].id = id

\* C16: when the scan stops early at a row, that row is first in the
\* returned list, and the returned entries are in the order they have in
\* the result of a scan without early termination.
EarlyExitPreservesRanking ==
  (Searched /\ StopIndex # 0) =>
    /\ call.result # <<>>
    /\ call.result[1].id = StopIndex
    /\ \A i \in 1..Len(call.result) :
         \E k \in 1..Len(FullScan) : FullScan[k].id = call.result[i].id
    /\ \A i, j \in 1..Len(call.result) :
         i < j => PositionInFullScan(call.result[i].id)
                    < PositionInFullScan(call.result[j].id)

\* the scan stopped at the second row, behind a row it had kept, and left
\* out a third row that a full scan ranks between the two
StoppedEarly ==
  /\ Searched
  /\ StopIndex = 2
  /\ Len(call.result) = 2
  /\ call.result[1].id = 2 /\ call.result[2].id = 1
  /\ Len(FullScan) = 3
  /\ FullScan[2].id = 3

\* C17: calculateCosineSimilarity returns 0 when a vector has zero
\* magnitude (the empty vector included), whatever the other array holds,
\* and no entry of a list findSimilarDocuments returns has the score NaN.
NoNaNPropagated ==
  /\ call.fn = "calculateCosineSimilarity" =>
       ( ( \/ DotProduct(call.vec1, call.vec1) = 0
           \/ DotProduct(call.vec2, call.vec2) = 0 )
         => call.score = ZeroScore )
  /\ call.fn = "findSimilarDocuments" =>
       \A i \in 1..Len(call.result) : call.result[i].similarity_score.sq # 0

\* a vector of zero magnitude against an array of its length with an
\* element that is no number: the score is 0
ZeroMagnitudeScored ==
  /\ call.fn = "calculateCosineSimilarity"
  /\ call.vec1 = <<0, 0>>
  /\ ~IsNumeric(call.vec2) /\ Len(call.vec2) = 2
  /\ call.score = ZeroScore

\* C18: for two arrays of numbers of the same length the returned score is
\* within [-1, 1], it is 1 for a nonzero vector against itself, and it is
\* the same for (a, b) and (b, a).
CosineBounds ==
  ( /\ call.fn = "calculateCosineSimilarity"
    /\ IsNumeric(call.vec1) /\ IsNumeric(call.vec2)
    /\ Len(call.vec1) = Len(call.vec2) )
  => /\ FloatWithinOne(call.quotient)
     /\ (call.vec1 = call.vec2 /\ DotProduct(call.vec1, call.vec1) # 0)
          => call.quotient = FloatOne
     /\ call.quotient = CosineQuotient(call.vec2, call.vec1)

(***************************************************************************)
(* Deferred generation, RAG switch, request validation.                    *)
(***************************************************************************)
\* the arrays generateEmbedding may have returned for a file
ReturnedEmbeddings(file) ==
  { a.embedding : a \in { b \in EmbeddingAnswers(file) : b.kind = "array" } }

\* C30: a call of processDocumentWithRAG with aiSummary = null that found
\* no exact and no similar match (and met no failure) has inserted nothing
\* and returns needsAiGeneration with a null summary, the hash of the file
\* and the embedding it computed
NeedsGenerationStoresNothing ==
  \A r \in Reqs :
    ( /\ req[r].kind = "process"
      /\ req[r].pc = "done"
      /\ ragEnabled
      /\ req[r].aiSummary = Null
      /\ req[r].failed = {}
      /\ ~req[r].ret.exactMatch
      /\ ~req[r].ret.isFromRAG )
    => /\ req[r].inserted = 0
       /\ \A i \in 1..Len(docs) : docs[i].id # req[r].ret.newDocumentId
       /\ req[r].ret.needsAiGeneration
       /\ req[r].ret.aiSummary = Null
       /\ req[r].ret.fileHash = generateFileHash(req[r].file.buffer)
       /\ req[r].ret.embedding \in ReturnedEmbeddings(req[r].file)
       /\ req[r].embedCalls = 1

\* C30 witness: the store held a row, the scan compared it, it was not
\* similar enough, and the call returned the embedding <<4, 3>> of c.pdf
NeedsGenerationReturned ==
  \E r \in Reqs :
    /\ req[r].kind = "process"
    /\ req[r].pc = "done"
    /\ req[r].ret.needsAiGeneration
    /\ req[r].scans = 1
    /\ req[r].ret.similarCount = 0
    /\ req[r].ret.embedding = <<4, 3>>
    /\ Len(docs) >= 1
    /\ req[r].inserted = 0

(***************************************************************************)
(* Invariants of the documents table.                                      *)
(***************************************************************************)
\* C21: all rows of the documents table hold embeddings of the same
\* length, and a request whose embedding differs in length from the rows
\* already stored has added no row
ConstantDimension ==
  /\ \A i, j \in 1..Len(docs) :
       Len(docs[i].embedding) = Len(docs[j].embedding)
  /\ \A r \in Reqs :
       req[r].inserted = 1
         => \A i \in 1..Len(docs) :
              docs[i].file_hash = generateFileHash(req[r].file.buffer)
                => \A j \in 1..Len(docs) :
                     Len(docs[j].embedding) = Len(docs[i].embedding)

\* the strings a call of generateText can produce
GeneratedStrings == Summaries \cup {ErrorText, NoResponseText}

\* C28: the result string a request gets on ExactMatch or on SimilarMatch
\* is a string some generation call produced, never one that carries a
\* "[Similar to: ...]" annotation
ProvenanceSeparate ==
  \A r \in Reqs :
    ( /\ req[r].pc = "done"
      /\ Outcome(req[r].ret) \in {"ExactMatch", "SimilarMatch"} )
    => /\ req[r].ret.aiSummary \in GeneratedStrings
       /\ req[r].response \in GeneratedStrings

(***************************************************************************)
(* The best match of a search (CallSpec).                                  *)
(***************************************************************************)
\* the last row the scan compared with the query
LastScanned == IF StopIndex = 0 THEN Len(call.allDocs) ELSE StopIndex

\* similarDocs[0], the entry processDocumentWithRAG uses as bestMatch
BestMatch == call.result[1]

\* C27 as stated: the best match has the maximum cosine similarity to the
\* query among all rows of the table with an embedding of the query's length
BestMatchMaximal ==
  (Searched /\ call.result # <<>>) =>
    \A j \in 1..Len(call.allDocs) :
      Len(call.allDocs[j].embedding) = Len(call.embedding)
        => ~ScoreLess(BestMatch.similarity_score, ScoreOfRow(j))

\* C27 amended: the best match has the maximum cosine similarity among the
\* rows of the query's length that the scan compared, which are all rows
\* unless the scan stopped early; when it stopped early the best match is
\* the row it stopped at, whose score exceeds 0.95
BestMatchMaximalAmongScanned ==
  (Searched /\ call.result # <<>>) =>
    /\ \A j \in 1..LastScanned :
         Len(call.allDocs[j].embedding) = Len(call.embedding)
           => ~ScoreLess(BestMatch.similarity_score, ScoreOfRow(j))
    /\ StopIndex # 0 =>
         /\ BestMatch.id = StopIndex
         /\ ScoreAbove(BestMatch.similarity_score, EarlyTermination)

\* C27 witness: the scan stopped at the newest row and never compared an
\* older row of the query's length that scores higher
BetterRowNotScanned ==
  /\ Searched
  /\ call.result # <<>>
  /\ StopIndex = 1
  /\ BestMatch.id = 1
  /\ \E j \in 2..Len(call.allDocs) :
       /\ Len(call.allDocs[j].embedding) = Len(call.embedding)
       /\ ScoreLess(BestMatch.similarity_score, ScoreOfRow(j))

\* C23: with RAG disabled an upload makes no hash lookup, no embedding
\* call, no similarity search and no insert, and the table stays as it
\* was; POST /analyze calls the generation once and answers 200 with the
\* generated text, marked as not from the cache
DisabledSkipsCache ==
  ~ragEnabled =>
    /\ docs \in InitialStores
    /\ \A r \in Reqs :
         req[r].kind \in {"analyze", "process"} =>
           /\ req[r].lookups = 0
           /\ req[r].embedCalls = 0
           /\ req[r].scans = 0
           /\ req[r].inserted = 0
           /\ req[r].failed = {}
           /\ req[r].pc = "done" =>
                /\ Outcome(req[r].ret) = "Disabled"
                /\ ~req[r].ret.isFromRAG
                /\ req[r].ret.aiSummary = req[r].aiSummary
           /\ (req[r].kind = "analyze" /\ req[r].pc = "done"
                 /\ req[r].status # 400) =>
                /\ req[r].genCalls = 1
                /\ req[r].status = 200
                /\ req[r].response = req[r].aiSummary
                /\ req[r].response \in GeneratedStrings

\* C23 witness: with RAG disabled the same file was uploaded twice and was
\* summarized twice, with two different answers, and nothing was stored
DisabledGeneratedTwice ==
  /\ ~ragEnabled
  /\ \A r \in Reqs :
       /\ req[r].kind = "analyze"
       /\ req[r].pc = "done"
       /\ req[r].file.originalname = "a.pdf"
       /\ req[r].genCalls = 1
       /\ req[r].lookups = 0
  /\ req[1].response = <<"s1">>
  /\ req[2].response = <<"s2">>
  /\ docs \in InitialStores

\* C26: a POST /analyze without a file or without an action is answered in
\* the step in which it arrives, with status 400 and the error message,
\* and that step makes no generation call, no embedding call, no hash
\* lookup and no insert and leaves the documents table as it was
RejectedBeforeAnything ==
  [][ \A r \in Reqs :
        ( /\ req[r].pc = "idle"
          /\ req'[r].kind = "analyze"
          /\ (req'[r].file = NoFile \/ req'[r].action = "") )
        => /\ req'[r].pc = "done"
           /\ req'[r].status = 400
           /\ req'[r].response = MissingText
           /\ req'[r].genCalls = 0
           /\ req'[r].embedCalls = 0
           /\ req'[r].lookups = 0
           /\ req'[r].scans = 0
           /\ req'[r].inserted = 0
           /\ docs' = docs ]_vars

\* C26 witness: one request without a file and one with a file but without
\* an action were both answered 400, with RAG enabled and a row stored
RejectedTwice ==
  /\ ragEnabled
  /\ Len(docs) = 1
  /\ req[1].kind = "analyze" /\ req[1].pc = "done"
  /\ req[1].file = NoFile /\ req[1].action = "resumer"
  /\ req[1].status = 400
  /\ req[2].kind = "analyze" /\ req[2].pc = "done"
  /\ req[2].file.originalname = "a.pdf" /\ req[2].action = ""
  /\ req[2].status = 400
  /\ req[2].response = MissingText

(***************************************************************************)
(* Frame conditions: what the operations leave alone.                      *)
(***************************************************************************)
\* the request r takes this step
Steps(r) == req'[r] # req[r]

\* C22: in every step, of an upload, a search or a status request, every
\* row of the documents table stays as it is (id, hash, file name,
\* extracted text, result, embedding, creation time) and no row is
\* removed: the table only grows at its end
AppendOnly ==
  [][ /\ Len(docs') >= Len(docs)
      /\ \A i \in 1..Len(docs) : docs'[i] = docs[i] ]_vars

\* C22 witness: an upload has added a second row behind the row the table
\* started with, and a search or a status request has been answered
GrownByOneRow ==
  /\ Len(docs) = 2
  /\ docs[1].filename = "a.pdf" /\ docs[1].ai_summary = <<"s1">>
  /\ \E r1, r2 \in Reqs :
       /\ req[r1].kind \in {"analyze", "process"}
       /\ req[r1].inserted = 1
       /\ req[r2].kind \in {"search", "status"}
       /\ req[r2].pc = "done"
       /\ req[r2].status = 200

\* C24: no step of a status request changes the documents table (or the
\* RAG switch), and the request is answered 200 with a status object: the
\* switch, the number of rows or zero with an error when the store fails,
\* and the outcome of the embedding test
StatusReadOnly ==
  [][ \A r \in Reqs :
        (Steps(r) /\ req'[r].kind = "status")
        => /\ docs' = docs
           /\ ragEnabled' = ragEnabled
           /\ req'[r].inserted = 0
           /\ req'[r].pc = "done" =>
                /\ req'[r].status = 200
                /\ req'[r].info.enabled = ragEnabled
                /\ IF req'[r].info.stats_error
                   THEN req'[r].info.total_documents = 0
                   ELSE req'[r].info.total_documents \in 0..Len(docs)
                /\ req'[r].info.embedding_success
                     <=> req'[r].info.dimension = 2 ]_vars

\* C24 witness: a status request was answered 200 although both the store
\* and the embedding model had failed, while the table held a row
StatusDespiteFailures ==
  \E r \in Reqs :
    /\ req[r].kind = "status"
    /\ req[r].pc = "done"
    /\ req[r].status = 200
    /\ req[r].info.stats_error
    /\ ~req[r].info.embedding_success
    /\ Len(docs) >= 1

\* C25: no step of a search request changes the documents table, for any
\* file, threshold and limit; the request inserts nothing and looks no
\* hash up
SearchReadOnly ==
  [][ \A r \in Reqs :
        (Steps(r) /\ req'[r].kind = "search")
        => /\ docs' = docs
           /\ ragEnabled' = ragEnabled
           /\ req'[r].inserted = 0
           /\ req'[r].lookups = 0
           /\ \A h \in {generateFileHash(f.buffer) : f \in Files} :
                getDocumentByHash(docs', h) = getDocumentByHash(docs, h) ]_vars

\* C25 witness: a search for b.pdf found the stored a.pdf, and the upload
\* of b.pdf that followed was no exact match: it ended as SimilarMatch and
\* stored the row of b.pdf itself
SearchThenUpload ==
  /\ req[1].kind = "search" /\ req[1].pc = "done"
  /\ req[1].file.originalname = "b.pdf"
  /\ req[1].status = 200
  /\ req[1].info.total_results = 1
  /\ req[2].kind = "analyze" /\ req[2].pc = "done"
  /\ req[2].file.originalname = "b.pdf"
  /\ req[2].lookups = 1
  /\ Outcome(req[2].ret) = "SimilarMatch"
  /\ req[2].inserted = 1

(***************************************************************************)
(* Properties of splitIntoSentenceChunks (ChunkSpec).                      *)
(***************************************************************************)
\* C29: splitIntoSentenceChunks returns at most SUMMARY_MAX_CHUNKS chunks,
\* and for a text longer than maxChars every chunk has at most maxChars
\* characters, a text of one long sentence included
ChunksBounded ==
  call.fn = "splitIntoSentenceChunks" =>
    /\ Len(call.chunks) <= SUMMARY_MAX_CHUNKS
    /\ Len(call.text) > call.maxChars =>
         \A i \in 1..Len(call.chunks) : Len(call.chunks[i]) <= call.maxChars

====
